---- MODULE Spec2Model ----
(***************************************************************************)
(* Verification model of hypernym-mcp-server: the resilient axios client   *)
(* (response interceptor with retry and backoff) of the HTTP server and of *)
(* the stdio server, and the request adapters in front of it (the MCP      *)
(* tool-invocation handler and the JSON-RPC POST / endpoint).              *)
(*                                                                         *)
(* One invocation is a small process: the handler validates and posts      *)
(* (Invoke), the upstream answers one attempt (Respond), a backoff timer   *)
(* elapses and the interceptor re-issues the request (TimerFire).  The     *)
(* awaits of the code are the boundaries between the actions.              *)
(***************************************************************************)
EXTENDS Integers, Sequences, FiniteSets

(***************************************************************************)
(* Bounds of the model                                                     *)
(***************************************************************************)
\* invocations that exist in the model (slot 2 is used by concurrent runs)
NumInv == 2
\* the stdio client has no retry counter: its attempts are capped here
MaxStdioAttempts == 5

Inv == 1..NumInv

(***************************************************************************)
(* Program constants                                                       *)
(***************************************************************************)
MaxRetries == 3
MaxNetworkRetries == 2
BackoffBase == 1000
BackoffCap == 10000
DefaultRetryAfterMs == 10000
StdioDefaultRetryAfter == 5
\* ratios are kept in hundredths: 0.5 is 50, 0.8 is 80
DefaultMinCompressionRatio == 50
DefaultMinSemanticSimilarity == 80

(***************************************************************************)
(* JavaScript values.  Every value is a record tagged by its typeof-like   *)
(* kind t; the payload field has a different name per kind.                *)
(***************************************************************************)
Undefined == [t |-> "undefined"]
Null == [t |-> "null"]
Num(n) == [t |-> "number", n |-> n]
Str(s) == [t |-> "string", s |-> s]
\* a string whose characters matter (header values): c is a sequence of
\* one-character strings
Chars(c) == [t |-> "string", c |-> c]
Obj(f) == [t |-> "object", f |-> f]
EmptyObj == [t |-> "object", f |-> <<>>]

\* typeof v
TypeOf(v) == IF v.t = "null" THEN "object" ELSE v.t

\* o.k, or o?.k: undefined when the property is missing
Prop(o, k) ==
    IF o.t = "object" /\ k \in DOMAIN o.f THEN o.f[k] ELSE Undefined

\* JavaScript truthiness
Truthy(v) ==
    CASE v.t = "undefined" -> FALSE
      [] v.t = "null" -> FALSE
      [] v.t = "number" -> v.n # 0
      [] v.t = "string" -> IF "c" \in DOMAIN v THEN v.c # <<>>
                           ELSE IF "s" \in DOMAIN v THEN v.s # ""
                           ELSE TRUE
      [] OTHER -> TRUE

\* a || b
Or(a, b) == IF Truthy(a) THEN a ELSE b

\* a template literal or a concatenation, kept as its parts
Template(parts) == [t |-> "string", parts |-> parts]

\* JSON.stringify(v, null, 2), kept as the serialized value
Stringify(v) == [t |-> "string", json |-> v]

\* a ?? b
Nullish(a, b) == IF a.t \in {"undefined", "null"} THEN b ELSE a

(***************************************************************************)
(* Number <-> string conversions used on header values                     *)
(***************************************************************************)
Digits == <<"0", "1", "2", "3", "4", "5", "6", "7", "8", "9">>

IsDigit(ch) == \E d \in 1..10 : Digits[d] = ch

DigitVal(ch) == (CHOOSE d \in 1..10 : Digits[d] = ch) - 1

RECURSIVE DigitPrefix(_)
\* the longest prefix of c made of decimal digits
DigitPrefix(c) ==
    IF c = <<>> \/ ~IsDigit(Head(c)) THEN <<>>
    ELSE <<Head(c)>> \o DigitPrefix(Tail(c))

RECURSIVE DigitsValue(_)
DigitsValue(c) ==
    IF c = <<>> THEN 0
    ELSE 10 * DigitsValue(SubSeq(c, 1, Len(c) - 1)) + DigitVal(c[Len(c)])

\* a JavaScript number that may be NaN
NaN == [nan |-> TRUE, n |-> 0]
Number(n) == [nan |-> FALSE, n |-> n]

\* parseInt(c, 10) on an unsigned string: the leading digits, NaN if none
ParseInt(c) ==
    IF DigitPrefix(c) = <<>> THEN NaN ELSE Number(DigitsValue(DigitPrefix(c)))

RECURSIVE NumToString(_)
\* n.toString() for a natural number
NumToString(n) ==
    IF n < 10 THEN <<Digits[n + 1]>>
    ELSE NumToString(n \div 10) \o <<Digits[(n % 10) + 1]>>

\* x * k on a JavaScript number
Times(x, k) == IF x.nan THEN NaN ELSE Number(x.n * k)

RECURSIVE Pow2(_)
Pow2(n) == IF n = 0 THEN 1 ELSE 2 * Pow2(n - 1)

Min(a, b) == IF a <= b THEN a ELSE b

(***************************************************************************)
(* Upstream outcomes of one HTTP attempt                                   *)
(***************************************************************************)
\* retry-after header values: absent, or "2" (seconds)
RetryAfterValues == {Undefined, Chars(<<"2">>)}

ErrorBodies == {EmptyObj, Obj([message |-> Str("upstream message")])}

TextsOf(k, v) == Obj([texts |-> Obj([x \in {k} |-> Str(v)])])

SuccessBodies ==
    { Obj([results |-> Obj([response |-> TextsOf("suggested", "X")])]),
      Obj([response |-> TextsOf("suggested", "Y")]),
      Obj([results |-> Obj([response |-> TextsOf("compressed", "Z")])]),
      Obj([results |-> Obj([response |-> Obj([texts |->
            Obj([suggested |-> Str("S"), compressed |-> Str("C")])])])]),
      Obj([results |-> Obj([response |-> Obj([texts |-> EmptyObj])])]),
      EmptyObj }

RateLimitStatus == 429
ServerErrorStatuses == {500, 502, 503, 504}
OtherErrorStatuses == {400, 401, 403, 404}

\* an HTTP response: status, the retry-after header and the parsed body
Response(status, retryAfter, data) ==
    [kind |-> "response", status |-> status,
     headers |-> [retryAfter |-> retryAfter], data |-> data]

\* request sent, no response received (connection failure or timeout)
NetworkFailure == [kind |-> "network"]

NoOutcome == [kind |-> "none"]

SuccessOutcomes == {Response(200, Undefined, b) : b \in SuccessBodies}

ErrorOutcomes ==
    {Response(RateLimitStatus, h, b) : h \in RetryAfterValues, b \in ErrorBodies}
    \cup {Response(s, Undefined, b) :
            s \in ServerErrorStatuses \cup OtherErrorStatuses, b \in ErrorBodies}
    \cup {NetworkFailure}

(***************************************************************************)
(* Request configuration of one attempt                                    *)
(***************************************************************************)
NoConfig == [url |-> "none"]

\* instance.post('/analyze_sync', data) on an instance created with apiKey
PostConfig(apiKey, data) ==
    [url |-> "/analyze_sync", method |-> "post", data |-> data,
     headers |-> [xApiKey |-> apiKey, xRetryCount |-> Undefined]]

\* retryCount as the interceptor reads it from the x-retry-count header
RetryCountOf(config) ==
    LET retryCountHeader == config.headers.xRetryCount
    IN IF Truthy(retryCountHeader) /\ TypeOf(retryCountHeader) = "string"
       THEN ParseInt(retryCountHeader.c)
       ELSE Number(0)

\* x >= k on a JavaScript number (false for NaN)
AtLeast(x, k) == ~x.nan /\ x.n >= k
\* variant: x <= k
LessThan_AtMost(x, k) == ~x.nan /\ x.n <= k

\* x < k on a JavaScript number (false for NaN)
LessThan(x, k) == ~x.nan /\ x.n < k

\* variant: the backoff grows linearly
BackoffDelay_Linear(retryCount) ==
    IF retryCount.nan THEN NaN
    ELSE Number(Min(BackoffBase * (retryCount.n + 1), BackoffCap))

\* Math.min(1000 * Math.pow(2, retryCount), 10000)
BackoffDelay(retryCount) ==
    IF retryCount.nan THEN NaN
    ELSE Number(Min(BackoffBase * Pow2(retryCount.n), BackoffCap))

\* variant: the hint is taken as milliseconds
RetryAfterDelay_Milliseconds(response) ==
    LET retryAfterHeader == response.headers.retryAfter
    IN IF Truthy(retryAfterHeader) /\ TypeOf(retryAfterHeader) = "string"
       THEN ParseInt(retryAfterHeader.c)
       ELSE Number(DefaultRetryAfterMs)

\* the delay of the 429 branch of the HTTP server's interceptor
RetryAfterDelay(response) ==
    LET retryAfterHeader == response.headers.retryAfter
    IN IF Truthy(retryAfterHeader) /\ TypeOf(retryAfterHeader) = "string"
       THEN Times(ParseInt(retryAfterHeader.c), 1000)
       ELSE Number(DefaultRetryAfterMs)

\* variant: the counter written to the header skips one
NewConfig_CountsTwo(config, retryCount) ==
    [config EXCEPT !.headers =
        [config.headers EXCEPT !.xRetryCount =
            IF retryCount.nan THEN Chars(<<"N", "a", "N">>)
            ELSE Chars(NumToString(retryCount.n + 2))]]

\* const newConfig = {...config}; headers['x-retry-count'] = (n + 1).toString()
NewConfig(config, retryCount) ==
    [config EXCEPT !.headers =
        [config.headers EXCEPT !.xRetryCount =
            IF retryCount.nan THEN Chars(<<"N", "a", "N">>)
            ELSE Chars(NumToString(retryCount.n + 1))]]

Reject == [act |-> "reject"]
\* await a timer of delay ms, then retry; cause and hint (the retry-after
\* header seen) are what the interceptor logs about the decision
WaitThenRetry(cause, hint, delay) ==
    [act |-> "wait", wait |-> [cause |-> cause, hint |-> hint, delay |-> delay]]

\* variant: every error status is retried with backoff
HttpStatusDecision_RetriesAll(response, retryCount) ==
    CASE response.status = RateLimitStatus ->
            WaitThenRetry("rate", response.headers.retryAfter, RetryAfterDelay(response))
      [] OTHER ->
            WaitThenRetry("server", Undefined, BackoffDelay(retryCount))

\* the status switch of the HTTP server's interceptor
HttpStatusDecision(response, retryCount) ==
    CASE response.status = RateLimitStatus ->
            WaitThenRetry("rate", response.headers.retryAfter, RetryAfterDelay(response))
      [] response.status \in ServerErrorStatuses ->
            WaitThenRetry("server", Undefined, BackoffDelay(retryCount))
      [] OTHER -> Reject

\* variant: network failures share the limit of the status branch
HttpNetworkDecision_ThreeRetries(retryCount) ==
    IF LessThan(retryCount, MaxRetries)
    THEN WaitThenRetry("network", Undefined, BackoffDelay(retryCount))
    ELSE Reject

\* the network-error branch of the HTTP server's interceptor
HttpNetworkDecision(retryCount) ==
    IF LessThan(retryCount, MaxNetworkRetries)
    THEN WaitThenRetry("network", Undefined, BackoffDelay(retryCount))
    ELSE Reject

\* variant: the retry-count check lets one more retry through
HttpOnRejected_OneMoreRetry(config, out) ==
    LET retryCount == RetryCountOf(config)
    IN IF AtLeast(retryCount, MaxRetries + 1) THEN Reject
       ELSE IF out.kind = "response" THEN HttpStatusDecision(out, retryCount)
       ELSE HttpNetworkDecision(retryCount)

\* the rejection handler of the HTTP server's response interceptor
HttpOnRejected(config, out) ==
    LET retryCount == RetryCountOf(config)
    IN IF AtLeast(retryCount, MaxRetries) THEN Reject
       ELSE IF out.kind = "response" THEN HttpStatusDecision(out, retryCount)
       ELSE HttpNetworkDecision(retryCount)

\* the rejection handler of the stdio server's response interceptor
StdioOnRejected(config, out) ==
    IF out.kind = "response" /\ out.status = RateLimitStatus
    THEN LET h == out.headers.retryAfter
             retryAfter == ParseInt(IF Truthy(h) THEN h.c
                                    ELSE NumToString(StdioDefaultRetryAfter))
         IN WaitThenRetry("rate", h, Times(retryAfter, 1000))
    ELSE Reject

\* the request the interceptor re-issues after the wait
RetryConfig(variant, config) ==
    IF variant = "http" THEN NewConfig(config, RetryCountOf(config))
    ELSE config

\* the configuration of the failed attempt once the interceptor has built
\* newConfig: {...config} copies the reference to config.headers, so the
\* assignment of x-retry-count writes into the header set of config too
ConfigAfterRetry(variant, config) ==
    IF variant = "http"
    THEN [config EXCEPT !.headers = RetryConfig(variant, config).headers]
    ELSE config

OnRejected(variant, config, out) ==
    IF variant = "http" THEN HttpOnRejected(config, out)
    ELSE StdioOnRejected(config, out)

(***************************************************************************)
(* Inbound requests                                                        *)
(***************************************************************************)
TextValues == {Undefined, Num(5), Str(""), Str("abc")}
CompressionRatioValues == {Undefined, Null, Num(0), Str("0.5")}
SimilarityValues == {Undefined, Num(90), Str("high")}

\* arguments as a client of the HTTP server names them
SnakeArgs ==
    {Obj([text |-> t, min_compression_ratio |-> c, min_semantic_similarity |-> m]) :
        t \in TextValues, c \in CompressionRatioValues, m \in SimilarityValues}

\* arguments as a client of the stdio server names them
CamelArgs ==
    {Obj([text |-> t, minCompressionRatio |-> c, minSemanticSimilarity |-> m]) :
        t \in TextValues, c \in CompressionRatioValues, m \in SimilarityValues}

NonObjectArgs == {Undefined, Str("abc")}

ToolNames == {Str("analyze_text"), Str("semantic_compression"), Str("summarize")}

RpcIds == {Undefined, Num(0), Num(7)}

\* a tools/call request delivered by the MCP transport
ToolRequest(surface, name, args) ==
    [surface |-> surface, name |-> name, args |-> args]

\* the JSON body of a POST / request
RpcRequest(jsonrpc, method, id, name, args) ==
    [surface |-> "http_rpc", jsonrpc |-> jsonrpc, method |-> method, id |-> id,
     name |-> name, args |-> args]

HttpToolRequests ==
    {ToolRequest("http_tool", n, a) : n \in ToolNames, a \in SnakeArgs \cup NonObjectArgs}

StdioToolRequests ==
    {ToolRequest("stdio_tool", n, a) : n \in ToolNames, a \in CamelArgs \cup NonObjectArgs}

RpcCallRequests ==
    {RpcRequest(Str("2.0"), Str("callTool"), id, n, a) :
        id \in RpcIds, n \in ToolNames \cup {Undefined},
        a \in SnakeArgs \cup NonObjectArgs}

RpcOtherRequests ==
    {RpcRequest(j, m, id, Undefined, Undefined) :
        j \in {Undefined, Str("1.0"), Str("2.0")},
        m \in {Str("listTools"), Str("tools/call")}, id \in RpcIds}

\* POST /analyze_sync: the X-API-Key header and the JSON body
ApiKeyHeaders == {Undefined, Str("K0"), Str("K1")}
EssayTexts == {Undefined, Num(5), Str(""), Str("abc")}
SyncParams == {Undefined, Obj([min_compression_ratio |-> Num(0)])}

SyncRequest(apiKeyHeader, essay_text, params) ==
    [surface |-> "http_sync", verb |-> "POST", path |-> "/analyze_sync",
     apiKeyHeader |-> apiKeyHeader, essay_text |-> essay_text, params |-> params]

SyncRequests ==
    {SyncRequest(k, t, p) : k \in ApiKeyHeaders, t \in EssayTexts, p \in SyncParams}

\* a request to any other verb and path
RouteRequest(verb, path) ==
    [surface |-> "http_route", verb |-> verb, path |-> path]

RouteRequests ==
    { RouteRequest("GET", "/health"),
      RouteRequest("POST", "/analyze_text"),
      RouteRequest("POST", "/semantic_compression") }

NoRequest == [surface |-> "none"]

(***************************************************************************)
(* Request adapter: validation and the upstream request body               *)
(***************************************************************************)
\* isValidAnalyzeTextArgs of the HTTP server
IsValidAnalyzeTextArgs(args) ==
    /\ TypeOf(args) = "object"
    /\ args # Null
    /\ TypeOf(Prop(args, "text")) = "string"
    /\ \/ Prop(args, "min_compression_ratio") = Undefined
       \/ TypeOf(Prop(args, "min_compression_ratio")) = "number"
    /\ \/ Prop(args, "min_semantic_similarity") = Undefined
       \/ TypeOf(Prop(args, "min_semantic_similarity")) = "number"

\* isValidAnalyzeTextArgs and isValidSemanticCompressionArgs of the stdio server
StdioIsValidArgs(args) ==
    /\ TypeOf(args) = "object"
    /\ args # Null
    /\ TypeOf(Prop(args, "text")) = "string"
    /\ \/ Prop(args, "minCompressionRatio") = Undefined
       \/ TypeOf(Prop(args, "minCompressionRatio")) = "number"
    /\ \/ Prop(args, "minSemanticSimilarity") = Undefined
       \/ TypeOf(Prop(args, "minSemanticSimilarity")) = "number"

\* variant: only the presence of the arguments is checked
RpcArgsRejected_PresenceOnly(toolArgs) == ~Truthy(toolArgs)

\* !toolArgs || typeof toolArgs.text !== 'string' of the POST / handler
RpcArgsRejected(toolArgs) ==
    ~Truthy(toolArgs) \/ TypeOf(Prop(toolArgs, "text")) # "string"

\* variant: the defaults are applied with || instead of ??
UpstreamBody_FalsyDefault(text, ratio, similarity) ==
    Obj([essay_text |-> text,
         params |-> Obj([
            min_compression_ratio |-> Or(ratio, Num(DefaultMinCompressionRatio)),
            min_semantic_similarity |-> Or(similarity, Num(DefaultMinSemanticSimilarity))])])

\* { essay_text, params: { min_compression_ratio ?? 0.5, min_semantic_similarity ?? 0.8 } }
UpstreamBody(text, ratio, similarity) ==
    Obj([essay_text |-> text,
         params |-> Obj([
            min_compression_ratio |-> Nullish(ratio, Num(DefaultMinCompressionRatio)),
            min_semantic_similarity |-> Nullish(similarity, Num(DefaultMinSemanticSimilarity))])])

HttpBody(args) ==
    UpstreamBody(Prop(args, "text"), Prop(args, "min_compression_ratio"),
                 Prop(args, "min_semantic_similarity"))

StdioBody(args) ==
    UpstreamBody(Prop(args, "text"), Prop(args, "minCompressionRatio"),
                 Prop(args, "minSemanticSimilarity"))

\* what the handler does before its first await
Reply(result) == [act |-> "reply", result |-> result]
Post(data) == [act |-> "post", data |-> data]

McpError(code, message) == [kind |-> "mcpError", code |-> code, message |-> message]
ToolResult(isError, text) == [kind |-> "result", isError |-> isError, text |-> text]
Thrown(name) == [kind |-> "thrown", error |-> name]
HttpReply(status, body) == [kind |-> "http", status |-> status, body |-> body]
NoResult == [kind |-> "none"]

RpcError(status, id, code, message) ==
    HttpReply(status, Obj([jsonrpc |-> Str("2.0"), id |-> id,
                           error |-> Obj([code |-> Num(code), message |-> message])]))

RpcResult(id, result) ==
    HttpReply(200, Obj([jsonrpc |-> Str("2.0"), id |-> id, result |-> result]))

IsTool(name) == name \in {Str("analyze_text"), Str("semantic_compression")}

\* CallToolRequestSchema handler of the HTTP server, up to the post
HttpToolBegin(r) ==
    IF IsTool(r.name)
    THEN IF ~IsValidAnalyzeTextArgs(r.args)
         THEN Reply(McpError("InvalidParams",
                Template(<<Str("Invalid "), r.name, Str(" arguments: expected {text: string, min_compression_ratio?: number, min_semantic_similarity?: number}")>>)))
         ELSE Post(HttpBody(r.args))
    ELSE Reply(McpError("MethodNotFound", Template(<<Str("Unknown tool: "), r.name>>)))

\* CallToolRequestSchema handler of the stdio server, up to the post
StdioToolBegin(r) ==
    IF IsTool(r.name)
    THEN IF ~StdioIsValidArgs(r.args)
         THEN Reply(McpError("InvalidParams",
                Template(<<Str("Invalid "), r.name, Str(" arguments")>>)))
         ELSE Post(StdioBody(r.args))
    ELSE Reply(McpError("MethodNotFound", Template(<<Str("Unknown tool: "), r.name>>)))

\* POST / handler of the HTTP server, up to the post
RpcBegin(r) ==
    IF ~Truthy(r.jsonrpc) \/ r.jsonrpc # Str("2.0")
    THEN Reply(RpcError(400, Or(r.id, Null), -32600,
                Str("Invalid request: Not a valid JSON-RPC 2.0 request")))
    ELSE IF r.method # Str("callTool") /\ r.method # Str("listTools")
    THEN Reply(RpcError(400, Or(r.id, Null), -32601,
                Template(<<Str("Method not found: "), r.method>>)))
    ELSE IF r.method = Str("listTools")
    THEN Reply(RpcResult(r.id, Obj([tools |-> Str("analyze_text, semantic_compression")])))
    ELSE IF ~Truthy(r.name)
    THEN Reply(RpcError(400, r.id, -32602, Str("Invalid params: Missing tool name")))
    ELSE IF IsTool(r.name)
    THEN IF RpcArgsRejected(r.args)
         THEN Reply(RpcError(400, r.id, -32602,
                Str("Invalid params: Missing or invalid 'text' parameter")))
         ELSE Post(HttpBody(r.args))
    ELSE Reply(RpcError(400, r.id, -32601, Template(<<Str("Method not found: "), r.name>>)))

\* the handlers registered by setupExpressRoutes
Route(verb, path) ==
    CASE verb = "POST" /\ path = "/" -> "http_rpc"
      [] verb = "POST" /\ path = "/analyze_sync" -> "http_sync"
      [] verb = "GET" /\ path = "/health" -> "health"
      [] OTHER -> "unhandled"

\* the reply of express to a request no route matches
Unhandled(r) ==
    HttpReply(404, Template(<<Str("Cannot "), Str(r.verb), Str(" "), Str(r.path)>>))

\* GET /health, and the requests no route matches
RouteBegin(r) ==
    IF Route(r.verb, r.path) = "health"
    THEN Reply(HttpReply(200, Obj([status |-> Str("ok"), version |-> Str("1.0.0"),
                                   name |-> Str("hypernym-mcp-server")])))
    ELSE Reply(Unhandled(r))

\* instance.post on an instance created with apiKey
PostWith(apiKey, data) == [act |-> "post", data |-> data, apiKey |-> apiKey]

\* variant: the request is always sent on the shared instance
SyncBegin_SharedInstance(r, envKey) ==
    IF ~Truthy(r.essay_text) \/ TypeOf(r.essay_text) # "string"
    THEN Reply(HttpReply(400, Obj([error |-> Str("Missing or invalid essay_text parameter")])))
    ELSE LET apiKey == Or(r.apiKeyHeader, envKey)
         IN IF ~Truthy(apiKey)
            THEN Reply(HttpReply(401, Obj([error |-> Str("API key is required in X-API-Key header")])))
            ELSE PostWith(envKey,
                    UpstreamBody(r.essay_text, Prop(r.params, "min_compression_ratio"),
                                 Prop(r.params, "min_semantic_similarity")))

\* POST /analyze_sync handler, up to the post; envKey is
\* process.env.HYPERNYM_API_KEY, the key of the shared instance
SyncBegin(r, envKey) ==
    IF ~Truthy(r.essay_text) \/ TypeOf(r.essay_text) # "string"
    THEN Reply(HttpReply(400, Obj([error |-> Str("Missing or invalid essay_text parameter")])))
    ELSE LET apiKey == Or(r.apiKeyHeader, envKey)
         IN IF ~Truthy(apiKey)
            THEN Reply(HttpReply(401, Obj([error |-> Str("API key is required in X-API-Key header")])))
            ELSE PostWith(IF r.apiKeyHeader # envKey THEN apiKey ELSE envKey,
                    UpstreamBody(r.essay_text, Prop(r.params, "min_compression_ratio"),
                                 Prop(r.params, "min_semantic_similarity")))

Begin(r) ==
    CASE r.surface = "http_tool" -> HttpToolBegin(r)
      [] r.surface = "http_rpc" -> RpcBegin(r)
      [] r.surface = "stdio_tool" -> StdioToolBegin(r)
      [] r.surface = "http_route" -> RouteBegin(r)

\* the handler of r on a server whose shared instance carries apiKey
BeginOn(r, apiKey) ==
    IF r.surface = "http_sync" THEN SyncBegin(r, apiKey)
    ELSE LET b == Begin(r)
         IN IF b.act = "post" THEN PostWith(apiKey, b.data) ELSE b

(***************************************************************************)
(* Request adapter: mapping the settled upstream call to the reply         *)
(***************************************************************************)
\* error.message of the AxiosError
AxiosMessage(out) ==
    IF out.kind = "response"
    THEN Template(<<Str("Request failed with status code "), Num(out.status)>>)
    ELSE Str("Network Error")

\* error.response?.data
ErrorData(out) == IF out.kind = "response" THEN out.data ELSE Undefined

Nullable(v) == v.t \in {"undefined", "null"}

\* variant: the texts are read at data.response.texts
NestedTexts_Flat(data) == Prop(Prop(data, "response"), "texts")

\* the nested path of the HTTP server: data.results.response.texts
NestedTexts(data) == Prop(Prop(Prop(data, "results"), "response"), "texts")

HasNestedTexts(data) ==
    /\ Truthy(data)
    /\ Truthy(Prop(data, "results"))
    /\ Truthy(Prop(Prop(data, "results"), "response"))
    /\ Truthy(NestedTexts(data))

\* variant: texts.compressed || texts.suggested || ''
CompressedText_CompressedFirst(texts) ==
    Or(Or(Prop(texts, "compressed"), Prop(texts, "suggested")), Str(""))

\* texts.suggested || texts.compressed || ''
CompressedText(texts) ==
    Or(Or(Prop(texts, "suggested"), Prop(texts, "compressed")), Str(""))

\* variant: a 403 falls through to the upstream's own message
HttpToolErrorMessage_AuthOnly401(out) ==
    LET data == ErrorData(out)
        errorMessage == Or(Or(Prop(data, "message"), Prop(data, "error")), AxiosMessage(out))
    IN IF out.kind # "response" THEN errorMessage
       ELSE CASE out.status = 429 ->
                    Template(<<Str("Rate limit exceeded with Hypernym API. Please try again later. "),
                               IF Truthy(out.headers.retryAfter)
                               THEN Template(<<Str("Retry after: "), out.headers.retryAfter, Str(" seconds.")>>)
                               ELSE Str("")>>)
              [] out.status = 400 -> Template(<<Str("Bad request: "), errorMessage>>)
              [] out.status = 401 ->
                    Str("Authentication error with Hypernym API. Please check your API key.")
              [] out.status >= 500 ->
                    Str("Hypernym API server error. Please try again later.")
              [] OTHER -> errorMessage

\* the descriptive message of the tool handler's catch block
HttpToolErrorMessage(out) ==
    LET data == ErrorData(out)
        errorMessage == Or(Or(Prop(data, "message"), Prop(data, "error")), AxiosMessage(out))
    IN IF out.kind # "response" THEN errorMessage
       ELSE CASE out.status = 429 ->
                    Template(<<Str("Rate limit exceeded with Hypernym API. Please try again later. "),
                               IF Truthy(out.headers.retryAfter)
                               THEN Template(<<Str("Retry after: "), out.headers.retryAfter, Str(" seconds.")>>)
                               ELSE Str("")>>)
              [] out.status = 400 -> Template(<<Str("Bad request: "), errorMessage>>)
              [] out.status \in {401, 403} ->
                    Str("Authentication error with Hypernym API. Please check your API key.")
              [] out.status >= 500 ->
                    Str("Hypernym API server error. Please try again later.")
              [] OTHER -> errorMessage

\* CallToolRequestSchema handler of the HTTP server, after a successful post
HttpToolOnResolved(r, response) ==
    IF r.name = Str("analyze_text")
    THEN ToolResult(FALSE, Stringify(response.data))
    ELSE IF HasNestedTexts(response.data)
    THEN ToolResult(FALSE, CompressedText(NestedTexts(response.data)))
    ELSE McpError("InternalError",
            Template(<<Str("Internal error: "), Str("Unexpected API response structure")>>))

\* CallToolRequestSchema handler of the HTTP server, after a rejected post
HttpToolOnRejected(r, out) ==
    ToolResult(TRUE, Template(<<Str("Hypernym API error: "), HttpToolErrorMessage(out)>>))

\* POST / handler, after a successful post
RpcOnResolved(r, response) ==
    IF r.name = Str("analyze_text")
    THEN RpcResult(r.id, Obj([content |-> Stringify(response.data)]))
    ELSE RpcResult(r.id, Obj([content |->
            IF HasNestedTexts(response.data)
            THEN CompressedText(NestedTexts(response.data))
            ELSE Str("")]))

\* variant: the catch block sends no response
RpcOnRejected_NoAnswer(r, out) == NoResult

\* POST / handler, after a rejected post
RpcOnRejected(r, out) ==
    LET status == IF out.kind = "response" THEN out.status ELSE 500
        code == IF out.kind # "response" THEN -32603
                ELSE CASE status = 429 -> -32000
                       [] status = 400 -> -32602
                       [] status = 404 -> -32601
                       [] OTHER -> -32603
    IN RpcError(status, r.id, code,
            Template(<<Str("Hypernym API error: "),
                       Nullish(Prop(ErrorData(out), "message"), AxiosMessage(out))>>))

\* response.data.response.texts.suggested of the stdio server
StdioSuggested(data) ==
    IF Nullable(Prop(data, "response")) \/ Nullable(Prop(Prop(data, "response"), "texts"))
    THEN Thrown("TypeError")
    ELSE ToolResult(FALSE, Prop(Prop(Prop(data, "response"), "texts"), "suggested"))

\* CallToolRequestSchema handler of the stdio server, after a successful post
StdioToolOnResolved(r, response, includeRawInfo) ==
    IF r.name = Str("analyze_text") /\ includeRawInfo
    THEN ToolResult(FALSE, Stringify(response.data))
    ELSE StdioSuggested(response.data)

\* CallToolRequestSchema handler of the stdio server, after a rejected post
StdioToolOnRejected(r, out) ==
    ToolResult(TRUE, Template(<<Str("Hypernym API error: "),
                                Nullish(Prop(ErrorData(out), "message"), AxiosMessage(out))>>))

\* POST /analyze_sync handler, after a successful post
SyncOnResolved(r, response) == HttpReply(200, response.data)

\* variant: every upstream failure is answered 500
SyncOnRejected_Always500(r, out) ==
    HttpReply(500, Obj([error |-> Template(<<Str("Hypernym API error: "), AxiosMessage(out)>>)]))

\* POST /analyze_sync handler, after a rejected post
SyncOnRejected(r, out) ==
    IF out.kind = "response"
    THEN LET status == IF out.status # 0 THEN out.status ELSE 500
             responseData == Or(out.data, Obj([error |-> AxiosMessage(out)]))
         IN IF status = 429
            THEN HttpReply(429, Obj([
                    error |-> Str("Rate limit exceeded with Hypernym API. Please try again later."),
                    retryAfter |-> Or(out.headers.retryAfter, Str("60"))]))
            ELSE HttpReply(status, responseData)
    ELSE HttpReply(500, Obj([error |-> Template(<<Str("Hypernym API error: "), AxiosMessage(out)>>)]))

OnResolved(r, response, includeRawInfo) ==
    CASE r.surface = "http_tool" -> HttpToolOnResolved(r, response)
      [] r.surface = "http_sync" -> SyncOnResolved(r, response)
      [] r.surface = "http_rpc" -> RpcOnResolved(r, response)
      [] r.surface = "stdio_tool" -> StdioToolOnResolved(r, response, includeRawInfo)

OnCallRejected(r, out) ==
    CASE r.surface = "http_tool" -> HttpToolOnRejected(r, out)
      [] r.surface = "http_sync" -> SyncOnRejected(r, out)
      [] r.surface = "http_rpc" -> RpcOnRejected(r, out)
      [] r.surface = "stdio_tool" -> StdioToolOnRejected(r, out)

(***************************************************************************)
(* State                                                                   *)
(***************************************************************************)
VARIABLES
    server,       \* the running program: variant, API_KEY, INCLUDE_RAW_INFO
    pc,           \* per invocation: off, idle, inflight, waiting, done
    req,          \* the inbound request of the invocation
    config,       \* the request configuration of the current attempt
    attempts,     \* HTTP calls made to the upstream for the invocation
    waits,        \* the timers the interceptor awaited, in order
    lastOutcome,  \* the upstream's answer to the latest attempt
    clientOut,    \* how the promise of instance.post settled
    result,       \* what the handler gave back to its caller
    original      \* the configuration object of the first attempt, as it is now

vars == <<server, pc, req, config, attempts, waits, lastOutcome, clientOut, result,
          original>>

Servers ==
    {[variant |-> "http", apiKey |-> Str("K0"), includeRawInfo |-> FALSE]}
    \cup {[variant |-> "stdio", apiKey |-> Str("K0"), includeRawInfo |-> b] : b \in BOOLEAN}

Pending == [state |-> "pending"]
Resolved(response) == [state |-> "resolved", response |-> response]
Rejected(out, cfg) == [state |-> "rejected", error |-> [outcome |-> out, config |-> cfg]]

\* the state after construction, with the invocations in active waiting to arrive
InitWith(active) ==
    /\ server \in Servers
    /\ pc = [i \in Inv |-> IF i \in active THEN "idle" ELSE "off"]
    /\ req = [i \in Inv |-> NoRequest]
    /\ config = [i \in Inv |-> NoConfig]
    /\ attempts = [i \in Inv |-> 0]
    /\ waits = [i \in Inv |-> <<>>]
    /\ lastOutcome = [i \in Inv |-> NoOutcome]
    /\ clientOut = [i \in Inv |-> Pending]
    /\ result = [i \in Inv |-> NoResult]
    /\ original = [i \in Inv |-> NoConfig]

Init == InitWith({1})

RequestsOf(variant) ==
    IF variant = "http"
    THEN HttpToolRequests \cup RpcCallRequests \cup RpcOtherRequests
            \cup SyncRequests \cup RouteRequests
    ELSE StdioToolRequests

(***************************************************************************)
(* Actions                                                                 *)
(***************************************************************************)
\* the handler runs from the arrival of request r to its first await
Arrive(i, r) ==
    /\ req' = [req EXCEPT ![i] = r]
    /\ LET b == BeginOn(r, server.apiKey)
       IN IF b.act = "reply"
          THEN /\ pc' = [pc EXCEPT ![i] = "done"]
               /\ result' = [result EXCEPT ![i] = b.result]
               /\ UNCHANGED <<config, attempts, original>>
          ELSE /\ pc' = [pc EXCEPT ![i] = "inflight"]
               /\ config' = [config EXCEPT ![i] = PostConfig(b.apiKey, b.data)]
               /\ original' = [original EXCEPT ![i] = PostConfig(b.apiKey, b.data)]
               /\ attempts' = [attempts EXCEPT ![i] = 1]
               /\ UNCHANGED result
    /\ UNCHANGED <<server, waits, lastOutcome, clientOut>>

Invoke(i) ==
    /\ pc[i] = "idle"
    /\ \E r \in RequestsOf(server.variant) : Arrive(i, r)

\* the upstream answers 2xx: the interceptor passes the response through and
\* the handler builds its reply
Succeed(i, out) ==
    /\ lastOutcome' = [lastOutcome EXCEPT ![i] = out]
    /\ clientOut' = [clientOut EXCEPT ![i] = Resolved(out)]
    /\ result' = [result EXCEPT ![i] = OnResolved(req[i], out, server.includeRawInfo)]
    /\ pc' = [pc EXCEPT ![i] = "done"]
    /\ UNCHANGED <<server, req, config, attempts, waits, original>>

RespondOk(i) ==
    /\ pc[i] = "inflight"
    /\ \E out \in SuccessOutcomes : Succeed(i, out)

\* variant: the retry budget is one counter shared by all invocations
Fail_SharedBudget(i, out) ==
    /\ server.variant = "stdio" /\ out.kind = "response" /\ out.status = RateLimitStatus
         => attempts[i] < MaxStdioAttempts
    /\ lastOutcome' = [lastOutcome EXCEPT ![i] = out]
    /\ LET busiest == CHOOSE j \in Inv : \A k \in Inv : attempts[j] >= attempts[k]
           d == OnRejected(server.variant, config[busiest], out)
       IN IF d.act = "wait"
          THEN /\ pc' = [pc EXCEPT ![i] = "waiting"]
               /\ waits' = [waits EXCEPT ![i] = Append(@, d.wait)]
               /\ UNCHANGED <<clientOut, result>>
          ELSE /\ pc' = [pc EXCEPT ![i] = "done"]
               /\ clientOut' = [clientOut EXCEPT ![i] = Rejected(out, config[i])]
               /\ result' = [result EXCEPT ![i] = OnCallRejected(req[i], out)]
               /\ UNCHANGED waits
    /\ UNCHANGED <<server, req, config, attempts, original>>

\* the attempt fails: the interceptor either starts a timer or rejects, and on
\* rejection the handler's catch block builds the reply
Fail(i, out) ==
    /\ server.variant = "stdio" /\ out.kind = "response" /\ out.status = RateLimitStatus
         => attempts[i] < MaxStdioAttempts
    /\ lastOutcome' = [lastOutcome EXCEPT ![i] = out]
    /\ LET d == OnRejected(server.variant, config[i], out)
       IN IF d.act = "wait"
          THEN /\ pc' = [pc EXCEPT ![i] = "waiting"]
               /\ waits' = [waits EXCEPT ![i] = Append(@, d.wait)]
               /\ UNCHANGED <<clientOut, result>>
          ELSE /\ pc' = [pc EXCEPT ![i] = "done"]
               /\ clientOut' = [clientOut EXCEPT ![i] = Rejected(out, config[i])]
               /\ result' = [result EXCEPT ![i] = OnCallRejected(req[i], out)]
               /\ UNCHANGED waits
    /\ UNCHANGED <<server, req, config, attempts, original>>

RespondError(i) ==
    /\ pc[i] = "inflight"
    /\ \E out \in ErrorOutcomes : Fail(i, out)

\* variant: the timer's promise is never resolved
TimerFire_NeverResolves(i) ==
    /\ pc[i] = "waiting"
    /\ UNCHANGED vars

\* the awaited timer elapses and the interceptor issues the request again
TimerFire(i) ==
    /\ pc[i] = "waiting"
    /\ config' = [config EXCEPT ![i] = RetryConfig(server.variant, config[i])]
    /\ attempts' = [attempts EXCEPT ![i] = @ + 1]
    /\ original' = [original EXCEPT ![i] =
            IF attempts[i] = 1 THEN ConfigAfterRetry(server.variant, config[i]) ELSE @]
    /\ pc' = [pc EXCEPT ![i] = "inflight"]
    /\ UNCHANGED <<server, req, waits, lastOutcome, clientOut, result>>

Next ==
    \E i \in Inv :
        \/ Invoke(i)
        \/ RespondOk(i)
        \/ RespondError(i)
        \/ TimerFire(i)

Spec == Init /\ [][Next]_vars

(***************************************************************************)
(* Specification with fairness: every HTTP attempt completes and every     *)
(* timer elapses.  The requests are a sample of valid calls.               *)
(***************************************************************************)
SampleArgs ==
    Obj([text |-> Str("abc"), min_compression_ratio |-> Undefined,
         min_semantic_similarity |-> Num(90)])

SampleRequests ==
    {ToolRequest("http_tool", n, SampleArgs) :
        n \in {Str("analyze_text"), Str("semantic_compression")}}
    \cup {RpcRequest(Str("2.0"), Str("callTool"), Num(7), Str("analyze_text"), SampleArgs)}

\* a valid call arrives at the HTTP server
InvokeSample(i) ==
    /\ pc[i] = "idle"
    /\ server.variant = "http"
    /\ \E r \in SampleRequests : Arrive(i, r)

LiveNext ==
    \E i \in Inv :
        \/ InvokeSample(i)
        \/ RespondOk(i)
        \/ RespondError(i)
        \/ TimerFire(i)

\* the HTTP server after construction
LiveInit == Init /\ server.variant = "http"

LiveSpec ==
    /\ LiveInit
    /\ [][LiveNext]_vars
    /\ \A i \in Inv : WF_vars(RespondOk(i) \/ RespondError(i))
    /\ \A i \in Inv : WF_vars(TimerFire(i))

(***************************************************************************)
(* Specification of the express endpoints with fairness, over a sample of  *)
(* requests that takes every branch of POST / and POST /analyze_sync.      *)
(***************************************************************************)
RestSampleRequests ==
    { RpcRequest(Str("1.0"), Str("callTool"), Num(7), Str("analyze_text"), SampleArgs),
      RpcRequest(Str("2.0"), Str("tools/call"), Num(7), Undefined, Undefined),
      RpcRequest(Str("2.0"), Str("listTools"), Num(7), Undefined, Undefined),
      RpcRequest(Str("2.0"), Str("callTool"), Num(7), Undefined, Undefined),
      RpcRequest(Str("2.0"), Str("callTool"), Num(7), Str("summarize"), SampleArgs),
      RpcRequest(Str("2.0"), Str("callTool"), Num(7), Str("analyze_text"), Undefined),
      RpcRequest(Str("2.0"), Str("callTool"), Num(7), Str("analyze_text"), SampleArgs),
      RpcRequest(Str("2.0"), Str("callTool"), Num(7), Str("semantic_compression"), SampleArgs),
      SyncRequest(Undefined, Undefined, Undefined),
      SyncRequest(Undefined, Str("abc"), Undefined),
      SyncRequest(Str("K1"), Str("abc"), Undefined) }

\* a request arrives at POST / or at POST /analyze_sync
RestInvoke(i) ==
    /\ pc[i] = "idle"
    /\ \E r \in RestSampleRequests : Arrive(i, r)

RestNext ==
    \E i \in Inv :
        \/ RestInvoke(i)
        \/ RespondOk(i)
        \/ RespondError(i)
        \/ TimerFire(i)

RestSpec ==
    /\ LiveInit
    /\ [][RestNext]_vars
    /\ \A i \in Inv : WF_vars(RespondOk(i) \/ RespondError(i))
    /\ \A i \in Inv : WF_vars(TimerFire(i))

(***************************************************************************)
(* Specification of concurrent invocations on the HTTP server: every       *)
(* invocation is accepted independently, over a sample of requests and     *)
(* upstream outcomes.                                                      *)
(***************************************************************************)
ConcRequests ==
    { ToolRequest("http_tool", Str("analyze_text"), SampleArgs),
      SyncRequest(Str("K1"), Str("abc"), Undefined) }

ConcSuccessOutcomes == {Response(200, Undefined, EmptyObj)}

ConcErrorOutcomes == {Response(RateLimitStatus, Undefined, EmptyObj), NetworkFailure}

\* variant: a request is accepted only while no invocation is in a wait
ConcInvoke_Blocking(i) ==
    /\ pc[i] = "idle"
    /\ \A j \in Inv : pc[j] # "waiting"
    /\ \E r \in ConcRequests : Arrive(i, r)

\* a request arrives while other invocations may be in progress
ConcInvoke(i) ==
    /\ pc[i] = "idle"
    /\ \E r \in ConcRequests : Arrive(i, r)

ConcRespondOk(i) ==
    /\ pc[i] = "inflight"
    /\ \E out \in ConcSuccessOutcomes : Succeed(i, out)

ConcRespondError(i) ==
    /\ pc[i] = "inflight"
    /\ \E out \in ConcErrorOutcomes : Fail(i, out)

ConcNext ==
    \E i \in Inv :
        \/ ConcInvoke(i)
        \/ ConcRespondOk(i)
        \/ ConcRespondError(i)
        \/ TimerFire(i)

ConcInit == InitWith(Inv) /\ server.variant = "http"

ConcSpec == ConcInit /\ [][ConcNext]_vars

(***************************************************************************)
(* Properties                                                              *)
(***************************************************************************)
IsHttp == server.variant = "http"
IsStdio == server.variant = "stdio"

\* the retriable statuses of the HTTP server's interceptor
RetriableStatuses == {RateLimitStatus} \cup ServerErrorStatuses

\* C1 as stated: the HTTP server's client makes at most 3 HTTP attempts for
\* one invocation.
C1_AtMostThreeAttempts ==
    \A i \in Inv : IsHttp => attempts[i] <= 3

\* C1 amended: the HTTP server's client makes at most 4 HTTP attempts for one
\* invocation (the initial attempt and at most 3 retries), and a call that is
\* finally rejected with a 429 or 5xx response has made exactly 4.
C1_AtMostFourAttempts ==
    \A i \in Inv :
        IsHttp =>
            /\ attempts[i] <= 4
            /\ Len(waits[i]) <= 3
            /\ ( /\ clientOut[i].state = "rejected"
                 /\ lastOutcome[i].kind = "response"
                 /\ lastOutcome[i].status \in RetriableStatuses )
               => attempts[i] = 4

C1_Witness ==
    \E i \in Inv :
        /\ IsHttp
        /\ pc[i] = "done"
        /\ clientOut[i].state = "rejected"
        /\ lastOutcome[i].kind = "response"
        /\ lastOutcome[i].status = 503
        /\ \A k \in 1..Len(waits[i]) : waits[i][k].cause = "server"
        /\ attempts[i] = 4

\* C2: under fairness of the attempts and of the timers, every invocation of
\* the HTTP server that reached the upstream eventually gives a result, success
\* or error, back to its caller.
C2_EventuallyReturns ==
    \A i \in Inv :
        (IsHttp /\ pc[i] \in {"inflight", "waiting"})
            ~> (pc[i] = "done" /\ result[i] # NoResult
                /\ clientOut[i].state \in {"resolved", "rejected"})

C2_Witness ==
    \E i \in Inv :
        /\ IsHttp
        /\ pc[i] = "done"
        /\ attempts[i] = 4
        /\ result[i] # NoResult

\* C3 as stated: in the stdio server a call that keeps receiving 429 makes at
\* most 3 attempts in total.
C3_StdioAtMostThreeAttempts ==
    \A i \in Inv : IsStdio => attempts[i] <= 3

\* C4: when an attempt is answered 2xx the call resolves with exactly that
\* response, k-1 waits and retries have been made for attempt k (recorded in
\* the x-retry-count header), and a finished invocation issues no further
\* attempt; 429 with retry-after 2 followed by 200 has waited 2000 ms once.
C4_FirstSuccessReturned ==
    [][\A i \in Inv :
        /\ ( /\ pc[i] = "inflight"
             /\ pc'[i] # "inflight"
             /\ lastOutcome'[i].kind = "response"
             /\ lastOutcome'[i].status = 200 )
           => /\ pc'[i] = "done"
              /\ clientOut'[i] = Resolved(lastOutcome'[i])
              /\ result'[i] # NoResult
              /\ ( /\ req[i].surface \in {"http_tool", "http_rpc"}
                   /\ req[i].name = Str("analyze_text") )
                    => "isError" \notin DOMAIN result'[i] \/ ~result'[i].isError
              /\ attempts'[i] = attempts[i]
              /\ waits'[i] = waits[i]
              /\ Len(waits[i]) = attempts[i] - 1
              /\ IsHttp => RetryCountOf(config[i]) = Number(attempts[i] - 1)
              /\ ( /\ attempts[i] = 2
                   /\ waits[i][1].cause = "rate"
                   /\ waits[i][1].hint = Chars(<<"2">>) )
                 => waits[i][1].delay = Number(2000)
        /\ pc[i] = "done"
           => /\ pc'[i] = "done"
              /\ attempts'[i] = attempts[i]
              /\ config'[i] = config[i]
              /\ clientOut'[i] = clientOut[i]
              /\ result'[i] = result[i]
    ]_vars

C4_Witness ==
    \E i \in Inv :
        /\ IsHttp
        /\ pc[i] = "done"
        /\ clientOut[i].state = "resolved"
        /\ clientOut[i].response \in SuccessOutcomes
        /\ attempts[i] = 2
        /\ waits[i] = <<[cause |-> "rate", hint |-> Chars(<<"2">>), delay |-> Number(2000)]>>
        /\ config[i].headers.xRetryCount = Chars(<<"1">>)

\* the wait the claim prescribes for a 429 response with retry-after header h
ExpectedRateLimitWait(h) ==
    IF h = Undefined
    THEN Number(IF IsHttp THEN 10000 ELSE 5000)
    ELSE Number(1000 * DigitsValue(h.c))

\* C5: the retry that follows a 429 response comes after a wait of the
\* retry-after hint in seconds, or of 10 s (HTTP server) or 5 s (stdio server)
\* without a hint, and every retried request has the URL, method and body of
\* the failed one.
C5_RateLimitWaitAndSameRequest ==
    [][\A i \in Inv :
        (pc[i] = "waiting" /\ pc'[i] = "inflight")
        => /\ attempts'[i] = attempts[i] + 1
           /\ config'[i].url = config[i].url
           /\ config'[i].method = config[i].method
           /\ config'[i].data = config[i].data
           /\ (lastOutcome[i].kind = "response" /\ lastOutcome[i].status = 429)
              => LET w == waits[i][Len(waits[i])]
                 IN /\ w.cause = "rate"
                    /\ w.delay = ExpectedRateLimitWait(lastOutcome[i].headers.retryAfter)
    ]_vars

C5_Witness ==
    \E i \in Inv :
        /\ IsHttp
        /\ pc[i] = "inflight"
        /\ attempts[i] = 3
        /\ lastOutcome[i] \in {Response(429, Undefined, b) : b \in ErrorBodies}
        /\ waits[i][1].delay = Number(2000)
        /\ waits[i][2].delay = Number(10000)
        /\ config[i].data = HttpBody(req[i].args)

\* the backoff the claim prescribes when r retries have been made
ExpectedBackoff(r) ==
    CASE r = 0 -> 1000
      [] r = 1 -> 2000
      [] r = 2 -> 4000
      [] r = 3 -> 8000
      [] OTHER -> 10000

\* C6: the k-th wait of an invocation, when caused by a 500, 502, 503 or 504
\* response, is min(1000 * 2^(k-1), 10000) ms, and there is exactly one wait
\* per retry.
C6_ServerErrorBackoff ==
    \A i \in Inv :
        /\ \A k \in 1..Len(waits[i]) :
              waits[i][k].cause = "server"
              => /\ waits[i][k].delay = Number(ExpectedBackoff(k - 1))
                 /\ waits[i][k].delay.n <= 10000
        /\ attempts[i] >= 1
           => Len(waits[i]) = attempts[i] - (IF pc[i] = "waiting" THEN 0 ELSE 1)
        /\ (pc[i] = "waiting" /\ lastOutcome[i].kind = "response"
              /\ lastOutcome[i].status \in ServerErrorStatuses)
           => waits[i][Len(waits[i])].cause = "server"

C6_Witness ==
    \E i \in Inv :
        /\ pc[i] = "inflight"
        /\ attempts[i] = 4
        /\ \A k \in 1..3 : waits[i][k].cause = "server"
        /\ waits[i][1].delay = Number(1000)
        /\ waits[i][2].delay = Number(2000)
        /\ waits[i][3].delay = Number(4000)

\* C7: in the HTTP server a network failure is retried after the same backoff
\* and only as first or second retry; when every attempt fails at network
\* level there are exactly 3 attempts, with waits of 1000 and 2000 ms, and the
\* call is rejected with the network error.
C7_NetworkFailureRetries ==
    \A i \in Inv :
        IsHttp =>
            /\ \A k \in 1..Len(waits[i]) :
                  waits[i][k].cause = "network"
                  => k <= 2 /\ waits[i][k].delay = Number(ExpectedBackoff(k - 1))
            /\ (pc[i] = "done" /\ lastOutcome[i] = NetworkFailure)
               => /\ clientOut[i].state = "rejected"
                  /\ clientOut[i].error.outcome = NetworkFailure
            /\ ( /\ pc[i] \in {"waiting", "done"}
                 /\ lastOutcome[i] = NetworkFailure
                 /\ \A k \in 1..Len(waits[i]) : waits[i][k].cause = "network" )
               => IF pc[i] = "done"
                  THEN /\ attempts[i] = 3
                       /\ waits[i][1].delay = Number(1000)
                       /\ waits[i][2].delay = Number(2000)
                  ELSE attempts[i] <= 2

C7_Witness ==
    \E i \in Inv :
        /\ IsHttp
        /\ pc[i] = "done"
        /\ lastOutcome[i] = NetworkFailure
        /\ clientOut[i].state = "rejected"
        /\ attempts[i] = 3
        /\ Len(waits[i]) = 2
        /\ \A k \in 1..2 : waits[i][k].cause = "network"

\* C8: a response with status 400, 401, 403 or 404 ends the invocation at
\* once: no wait is started for it, no further attempt follows (one attempt in
\* all when it answers the first), and the call is rejected with an error that
\* carries exactly that response.
C8_OtherStatusNotRetried ==
    \A i \in Inv :
        (lastOutcome[i].kind = "response" /\ lastOutcome[i].status \in OtherErrorStatuses)
        => /\ pc[i] = "done"
           /\ clientOut[i].state = "rejected"
           /\ clientOut[i].error.outcome = lastOutcome[i]
           /\ Len(waits[i]) = attempts[i] - 1
           /\ \A k \in 1..Len(waits[i]) : waits[i][k].cause \in {"rate", "server", "network"}
           /\ waits[i] = <<>> => attempts[i] = 1
           /\ result[i] # NoResult

C8_Witness ==
    \E i \in Inv :
        /\ pc[i] = "done"
        /\ lastOutcome[i].kind = "response"
        /\ lastOutcome[i].status = 403
        /\ attempts[i] = 1
        /\ waits[i] = <<>>
        /\ clientOut[i].state = "rejected"
        /\ clientOut[i].error.outcome.status = 403

\* the request is a tool call that reached the tool dispatch of its surface
IsCall(r) ==
    \/ r.surface \in {"http_tool", "stdio_tool"}
    \/ r.surface = "http_rpc" /\ r.jsonrpc = Str("2.0") /\ r.method = Str("callTool")

\* the reply is the argument-validation error of its surface
IsValidationError(res) ==
    \/ res.kind = "mcpError" /\ res.code = "InvalidParams"
    \/ /\ res.kind = "http"
       /\ res.status = 400
       /\ Prop(Prop(res.body, "error"), "code") = Num(-32602)

TextMissing(args) == TypeOf(Prop(args, "text")) # "string"

\* C9: a call of analyze_text or semantic_compression whose text is omitted or
\* not a string ends with the validation error of its surface and no HTTP call
\* to the upstream, on the tool handlers and on POST /.
C9_TextValidatedBeforeCall ==
    \A i \in Inv :
        ( /\ req[i] # NoRequest
          /\ IsCall(req[i])
          /\ IsTool(req[i].name)
          /\ TextMissing(req[i].args) )
        => /\ pc[i] = "done"
           /\ attempts[i] = 0
           /\ config[i] = NoConfig
           /\ clientOut[i] = Pending
           /\ IsValidationError(result[i])

C9_Witness ==
    \E i \in Inv :
        /\ req[i] # NoRequest
        /\ req[i].surface = "http_rpc"
        /\ IsCall(req[i])
        /\ req[i].name = Str("semantic_compression")
        /\ Prop(req[i].args, "text") = Num(5)
        /\ pc[i] = "done"
        /\ attempts[i] = 0
        /\ IsValidationError(result[i])

\* a ratio argument is supplied and is not a number
RatioNotNumber(args) ==
    \E k \in {"min_compression_ratio", "min_semantic_similarity"} :
        Prop(args, k) # Undefined /\ TypeOf(Prop(args, k)) # "number"

\* C10 as stated: on both surfaces of the HTTP server a call with a ratio that
\* is not a number makes no HTTP call to the upstream and ends with the
\* argument-validation error.
C10_RatiosValidatedEverywhere ==
    \A i \in Inv :
        ( /\ req[i] # NoRequest
          /\ req[i].surface \in {"http_tool", "http_rpc"}
          /\ IsCall(req[i])
          /\ IsTool(req[i].name)
          /\ RatioNotNumber(req[i].args) )
        => /\ attempts[i] = 0
           /\ pc[i] = "done"
           /\ IsValidationError(result[i])

\* C11 as stated: a call of analyze_text or semantic_compression whose text is
\* the empty string is rejected by validation and makes no HTTP call.
C11_EmptyTextRejected ==
    \A i \in Inv :
        ( /\ req[i] # NoRequest
          /\ IsCall(req[i])
          /\ IsTool(req[i].name)
          /\ Prop(req[i].args, "text") = Str("") )
        => /\ attempts[i] = 0
           /\ pc[i] = "done"
           /\ IsValidationError(result[i])

\* the names under which the surface of request r takes the two ratios
RatioKey(r) ==
    IF r.surface = "stdio_tool" THEN "minCompressionRatio" ELSE "min_compression_ratio"
SimilarityKey(r) ==
    IF r.surface = "stdio_tool" THEN "minSemanticSimilarity" ELSE "min_semantic_similarity"

SuppliedOrAbsentNumber(v) == v = Undefined \/ v.t = "number"

\* the call is valid: text is a string and each ratio is a number or omitted
IsValidCall(r) ==
    /\ IsCall(r)
    /\ IsTool(r.name)
    /\ Prop(r.args, "text").t = "string"
    /\ SuppliedOrAbsentNumber(Prop(r.args, RatioKey(r)))
    /\ SuppliedOrAbsentNumber(Prop(r.args, SimilarityKey(r)))

IsSuccessReply(res) ==
    \/ res.kind = "result" /\ ~res.isError
    \/ res.kind = "http" /\ res.status = 200 /\ "result" \in DOMAIN res.body.f

\* the text content of a reply
ReplyText(res) ==
    IF res.kind = "result" THEN res.text
    ELSE IF res.kind = "http" THEN Prop(Prop(res.body, "result"), "content")
    ELSE Undefined

\* semantic_compression was called and the upstream call succeeded
CompressionResolved(i) ==
    /\ req[i] # NoRequest
    /\ IsCall(req[i])
    /\ req[i].name = Str("semantic_compression")
    /\ clientOut[i].state = "resolved"

ResolvedData(i) == clientOut[i].response.data

IsText(v) == v.t = "string"

\* C13: on the HTTP server (tool handler and POST /), when the upstream
\* answers semantic_compression with a body whose results.response.texts.
\* suggested is "X", the caller receives a success whose text is exactly "X".
C13_NestedSuggestedReturned ==
    \A i \in Inv :
        ( /\ IsHttp
          /\ CompressionResolved(i)
          /\ ResolvedData(i) =
                Obj([results |-> Obj([response |-> Obj([texts |->
                    Obj([suggested |-> Str("X")])])])]) )
        => /\ pc[i] = "done"
           /\ IsSuccessReply(result[i])
           /\ ReplyText(result[i]) = Str("X")

C13_Witness ==
    \E i \in Inv :
        /\ IsHttp
        /\ CompressionResolved(i)
        /\ req[i].surface = "http_rpc"
        /\ Prop(Prop(Prop(Prop(ResolvedData(i), "results"), "response"), "texts"), "suggested") = Str("X")
        /\ attempts[i] = 2
        /\ ReplyText(result[i]) = Str("X")

\* C14 as stated: when the upstream answers semantic_compression with a body
\* whose response.texts.suggested is "Y" (no results wrapper), the caller
\* receives a success whose text is exactly "Y", as for the nested shape.
C14_FlatSuggestedReturned ==
    \A i \in Inv :
        ( /\ CompressionResolved(i)
          /\ Prop(Prop(Prop(ResolvedData(i), "response"), "texts"), "suggested") = Str("Y") )
        => /\ pc[i] = "done"
           /\ IsSuccessReply(result[i])
           /\ ReplyText(result[i]) = Str("Y")

\* neither path of the body leads to a compressed text
NoTextPath(data) ==
    \A texts \in { Prop(Prop(Prop(data, "results"), "response"), "texts"),
                   Prop(Prop(data, "response"), "texts") } :
        /\ ~IsText(Prop(texts, "suggested"))
        /\ ~IsText(Prop(texts, "compressed"))

\* C15 as stated: when the success body of semantic_compression has neither
\* text path, the caller receives an error and never a success, so never a
\* success whose text is the empty string.
C15_MissingTextIsError ==
    \A i \in Inv :
        (CompressionResolved(i) /\ NoTextPath(ResolvedData(i)))
        => /\ pc[i] = "done"
           /\ ~IsSuccessReply(result[i])

\* C16: on the HTTP server, when the texts object at the recognized path has
\* no suggested but has compressed, the caller receives the compressed text;
\* when it has both, the caller receives the suggested text.
C16_CompressedFallback ==
    \A i \in Inv :
        (IsHttp /\ CompressionResolved(i))
        => LET texts == Prop(Prop(Prop(ResolvedData(i), "results"), "response"), "texts")
               suggested == Prop(texts, "suggested")
               compressed == Prop(texts, "compressed")
           IN /\ (~IsText(suggested) /\ IsText(compressed))
                    => IsSuccessReply(result[i]) /\ ReplyText(result[i]) = compressed
              /\ (IsText(suggested) /\ IsText(compressed))
                    => IsSuccessReply(result[i]) /\ ReplyText(result[i]) = suggested

C16_Witness ==
    \E i \in Inv :
        /\ IsHttp
        /\ CompressionResolved(i)
        /\ req[i].surface = "http_tool"
        /\ ResolvedData(i) =
                Obj([results |-> Obj([response |-> Obj([texts |->
                    Obj([suggested |-> Str("S"), compressed |-> Str("C")])])])])
        /\ attempts[i] = 2
        /\ result[i] = ToolResult(FALSE, Str("S"))

\* the reply belongs to the not-found class of its surface
IsNotFound(res) ==
    \/ res.kind = "mcpError" /\ res.code = "MethodNotFound"
    \/ res.kind = "http" /\ Prop(Prop(res.body, "error"), "code") = Num(-32601)

\* C17 as stated: a call naming an operation other than analyze_text and
\* semantic_compression ends with a not-found error and no HTTP call, and the
\* not-found class is given neither to a validation failure nor to an
\* upstream failure.
C17_UnknownOperationNotFound ==
    \A i \in Inv :
        (req[i] # NoRequest /\ IsCall(req[i]))
        => /\ (Truthy(req[i].name) /\ ~IsTool(req[i].name))
                => /\ pc[i] = "done"
                   /\ attempts[i] = 0
                   /\ IsNotFound(result[i])
           /\ (IsTool(req[i].name) /\ attempts[i] = 0 /\ pc[i] = "done")
                => ~IsNotFound(result[i])
           /\ (clientOut[i].state = "rejected" /\ pc[i] = "done")
                => ~IsNotFound(result[i])

\* C18 as stated: on the tool handler of the HTTP server, once the upstream has been called,
\* the outcome is handed back as a tool result (isError set on failure, the
\* response-shape error included) and no protocol error is thrown.
C18_FailuresReturnedAsResults ==
    \A i \in Inv :
        ( /\ req[i] # NoRequest
          /\ req[i].surface = "http_tool"
          /\ attempts[i] >= 1
          /\ pc[i] = "done" )
        => /\ result[i].kind = "result"
           /\ (result[i].isError <=> clientOut[i].state = "rejected")

RateLimitMessage == "Rate limit exceeded with Hypernym API. Please try again later. "
AuthenticationMessage == "Authentication error with Hypernym API. Please check your API key."
ServerErrorMessage == "Hypernym API server error. Please try again later."

\* the tool handler of the HTTP server gave up on the upstream call of i,
\* whose last response had a status in statuses
HttpToolFailedWith(i, statuses) ==
    /\ req[i] # NoRequest
    /\ req[i].surface = "http_tool"
    /\ pc[i] = "done"
    /\ clientOut[i].state = "rejected"
    /\ lastOutcome[i].kind = "response"
    /\ lastOutcome[i].status \in statuses

\* the message of an error result, after the prefix "Hypernym API error: "
FailureMessage(res) == res.text.parts[2]

\* C19: on the tool handler of the HTTP server, the error result of a failed
\* upstream call is chosen by the last status: 429 gives the rate-limit
\* message followed by the retry-after hint when the header was present,
\* 401 and 403 give the authentication message, 500 and above give the
\* server-error message; the three messages differ pairwise.
C19_MessageByLastStatus ==
    /\ \A i \in Inv :
        /\ HttpToolFailedWith(i, {429, 401, 403} \cup ServerErrorStatuses)
            => /\ result[i].kind = "result"
               /\ result[i].isError
               /\ result[i].text.parts[1] = Str("Hypernym API error: ")
        /\ HttpToolFailedWith(i, {429})
            => LET hint == lastOutcome[i].headers.retryAfter
               IN /\ FailureMessage(result[i]).parts[1] = Str(RateLimitMessage)
                  /\ FailureMessage(result[i]).parts[2] =
                        (IF hint = Undefined THEN Str("")
                         ELSE Template(<<Str("Retry after: "), hint, Str(" seconds.")>>))
        /\ HttpToolFailedWith(i, {401, 403})
            => FailureMessage(result[i]) = Str(AuthenticationMessage)
        /\ HttpToolFailedWith(i, ServerErrorStatuses)
            => FailureMessage(result[i]) = Str(ServerErrorMessage)
    /\ RateLimitMessage # AuthenticationMessage
    /\ RateLimitMessage # ServerErrorMessage
    /\ AuthenticationMessage # ServerErrorMessage

C19_Witness ==
    \E i \in Inv :
        /\ HttpToolFailedWith(i, {403})
        /\ attempts[i] = 2
        /\ Prop(lastOutcome[i].data, "message") = Str("upstream message")
        /\ FailureMessage(result[i]) = Str(AuthenticationMessage)

\* C20 as stated: on every surface, the stdio server included and whatever
\* its flags, a successful analyze_text gives the caller the complete
\* upstream body in serialized form.
C20_AnalyzeTextReturnsFullBody ==
    \A i \in Inv :
        ( /\ req[i] # NoRequest
          /\ IsCall(req[i])
          /\ req[i].name = Str("analyze_text")
          /\ clientOut[i].state = "resolved" )
        => /\ pc[i] = "done"
           /\ IsSuccessReply(result[i])
           /\ ReplyText(result[i]) = Stringify(ResolvedData(i))

\* an upstream call was started for invocation i
Posted(i) == req[i] # NoRequest /\ attempts[i] >= 1

\* the reply the handler of r gives for the final upstream outcome out
ReplyFor(r, out) ==
    IF out.kind = "response" /\ out.status = 200
    THEN OnResolved(r, out, server.includeRawInfo)
    ELSE OnCallRejected(r, out)

\* C21: with concurrent invocations on the HTTP server, the attempts, the
\* retry counter and the reply of each invocation are determined by its own
\* request, its own waits and the upstream's answer to its own last attempt;
\* the retries of another invocation never use up or reset its budget.
C21_InvocationsIndependent ==
    \A i \in Inv :
        Posted(i)
        => /\ attempts[i] = Len(waits[i]) + (IF pc[i] = "waiting" THEN 0 ELSE 1)
           /\ RetryCountOf(config[i]) = Number(attempts[i] - 1)
           /\ config[i].data = original[i].data
           /\ pc[i] = "done"
                => /\ result[i] = ReplyFor(req[i], lastOutcome[i])
                   /\ clientOut[i].state = "rejected"
                        => /\ lastOutcome[i].kind = "response"
                                => attempts[i] = MaxRetries + 1
                           /\ lastOutcome[i].kind = "network"
                                => attempts[i] >= MaxNetworkRetries + 1

C21_Witness ==
    \E i, j \in Inv :
        /\ i # j
        /\ Posted(i)
        /\ Posted(j)
        /\ pc[i] = "waiting"
        /\ attempts[i] = 3
        /\ pc[j] = "inflight"
        /\ attempts[j] = 1
        /\ RetryCountOf(config[j]) = Number(0)

\* the key the upstream must see for request r
ExpectedKey(r) ==
    IF r.surface = "http_sync" /\ r.apiKeyHeader # Undefined
    THEN r.apiKeyHeader
    ELSE Str("K0")

\* C22: the process-wide key stays what it was at initialization, a
\* POST /analyze_sync request with its own X-API-Key is sent upstream with
\* that key on every attempt, and every request without the header is sent
\* with the process-wide key, whatever other requests are in progress.
C22_SharedCredentialUnchanged ==
    /\ server.apiKey = Str("K0")
    /\ \A i \in Inv :
        Posted(i) => config[i].headers.xApiKey = ExpectedKey(req[i])

C22_Witness ==
    \E i, j \in Inv :
        /\ Posted(i)
        /\ req[i].surface = "http_sync"
        /\ req[i].apiKeyHeader = Str("K1")
        /\ attempts[i] = 2
        /\ config[i].headers.xApiKey = Str("K1")
        /\ Posted(j)
        /\ req[j].surface = "http_tool"
        /\ pc[j] = "inflight"
        /\ config[j].headers.xApiKey = Str("K0")

ToolTwin(r) == ToolRequest("http_tool", r.name, r.args)

FailureClass(res) ==
    IF IsValidationError(res) THEN "validation"
    ELSE IF IsNotFound(res) THEN "not_found"
    ELSE IF res.kind = "result" /\ res.isError THEN "upstream"
    ELSE IF res.kind = "http" /\ "error" \in DOMAIN res.body.f THEN "upstream"
    ELSE "internal"

\* C23 as stated: for the same tool name, arguments and upstream outcomes,
\* callTool over POST / and the tool handler agree on whether the upstream is
\* called, on success or failure, on the failure class and on the text.
C23_RpcReplicatesToolHandler ==
    \A i \in Inv :
        ( /\ req[i] # NoRequest
          /\ req[i].surface = "http_rpc"
          /\ IsCall(req[i])
          /\ Truthy(req[i].name)
          /\ pc[i] = "done" )
        => LET twin == ToolTwin(req[i])
               begin == HttpToolBegin(twin)
               toolReply ==
                    IF begin.act = "reply" THEN begin.result
                    ELSE IF clientOut[i].state = "resolved"
                    THEN HttpToolOnResolved(twin, clientOut[i].response)
                    ELSE HttpToolOnRejected(twin, lastOutcome[i])
           IN /\ (begin.act = "reply") <=> (attempts[i] = 0)
              /\ IsSuccessReply(result[i]) <=> IsSuccessReply(toolReply)
              /\ IsSuccessReply(result[i]) => ReplyText(result[i]) = ReplyText(toolReply)
              /\ ~IsSuccessReply(result[i]) => FailureClass(result[i]) = FailureClass(toolReply)

\* C24 as stated: a POST to /analyze_text or to /semantic_compression, and a
\* GET to /health, is dispatched to a handler and not left unhandled.
C24_RestEndpointsDispatched ==
    \A i \in Inv :
        ( /\ req[i] # NoRequest
          /\ req[i].surface = "http_route"
          /\ <<req[i].verb, req[i].path>> \in
                { <<"POST", "/analyze_text">>, <<"POST", "/semantic_compression">>,
                  <<"GET", "/health">> } )
        => /\ pc[i] = "done"
           /\ result[i] # Unhandled(req[i])
           /\ result[i].status # 404

IsNonEmptyString(v) == v.t = "string" /\ v # Str("")

\* C25: POST /analyze_sync answers 400 without an upstream call when
\* essay_text is missing, empty or not a string; otherwise it answers 200
\* with the upstream body unchanged on success, the upstream's status when
\* the call finally fails with a response, and 500 when it fails without one.
C25_SyncIsTransparentProxy ==
    \A i \in Inv :
        (req[i] # NoRequest /\ req[i].surface = "http_sync")
        => /\ ~IsNonEmptyString(req[i].essay_text)
                => /\ pc[i] = "done"
                   /\ attempts[i] = 0
                   /\ result[i].kind = "http"
                   /\ result[i].status = 400
           /\ IsNonEmptyString(req[i].essay_text)
                => /\ attempts[i] >= 1
                   /\ (pc[i] = "done" /\ clientOut[i].state = "resolved")
                        => result[i] = [kind |-> "http", status |-> 200,
                                        body |-> lastOutcome[i].data]
                   /\ (pc[i] = "done" /\ clientOut[i].state = "rejected")
                        => /\ result[i].kind = "http"
                           /\ result[i].status =
                                (IF lastOutcome[i].kind = "response"
                                 THEN lastOutcome[i].status ELSE 500)

C25_Witness ==
    \E i \in Inv :
        /\ req[i] # NoRequest
        /\ req[i].surface = "http_sync"
        /\ pc[i] = "done"
        /\ clientOut[i].state = "rejected"
        /\ attempts[i] = 4
        /\ lastOutcome[i].kind = "response"
        /\ lastOutcome[i].status = 503
        /\ result[i].status = 503

RetriesBefore(k) == k - 1

\* C28: on the HTTP server the retry counter of an invocation is one number,
\* increased by exactly 1 on each retry whatever its cause; a wait for a 429
\* or 5xx response begins only with fewer than 3 earlier retries, a wait for
\* a network failure only with fewer than 2, and a network failure after two
\* retries of any cause is propagated without a further wait.
C28_OneBudgetForAllClasses ==
    \A i \in Inv :
        (IsHttp /\ Posted(i))
        => /\ RetryCountOf(config[i]) =
                Number(Len(waits[i]) - (IF pc[i] = "waiting" THEN 1 ELSE 0))
           /\ \A k \in 1..Len(waits[i]) :
                /\ waits[i][k].cause \in {"rate", "server"} => RetriesBefore(k) < 3
                /\ waits[i][k].cause = "network" => RetriesBefore(k) < 2
           /\ (pc[i] = "done" /\ clientOut[i].state = "rejected")
                => /\ lastOutcome[i].kind = "network" => Len(waits[i]) >= 2
                   /\ (lastOutcome[i].kind = "response"
                        /\ lastOutcome[i].status \in RetriableStatuses)
                      => Len(waits[i]) = 3
           /\ (pc[i] = "waiting" /\ lastOutcome[i].kind = "network")
                => Len(waits[i]) <= 2

C28_Witness ==
    \E i \in Inv :
        /\ IsHttp
        /\ Posted(i)
        /\ pc[i] = "done"
        /\ clientOut[i].state = "rejected"
        /\ lastOutcome[i].kind = "network"
        /\ attempts[i] = 3
        /\ Len(waits[i]) = 2
        /\ waits[i][1].cause = "rate"
        /\ waits[i][2].cause = "server"

\* C29 as stated: every response of POST / carries the id of the request it
\* answers, and a null or absent id only when the request had no id.
C29_ResponseIdEchoesRequest ==
    \A i \in Inv :
        ( /\ req[i] # NoRequest
          /\ req[i].surface = "http_rpc"
          /\ pc[i] = "done" )
        => /\ result[i].kind = "http"
           /\ req[i].id # Undefined => Prop(result[i].body, "id") = req[i].id
           /\ req[i].id = Undefined => Prop(result[i].body, "id") \in {Null, Undefined}

\* C30: every request to POST / and to POST /analyze_sync is eventually
\* answered with an HTTP response, and once answered its response is never
\* replaced by another and no further upstream call is made for it.
C30_ExactlyOneResponse ==
    /\ \A i \in Inv :
        (req[i] # NoRequest) ~> (pc[i] = "done" /\ result[i].kind = "http")
    /\ [][\A i \in Inv :
            result[i] # NoResult
            => /\ result'[i] = result[i]
               /\ pc'[i] = "done"
               /\ attempts'[i] = attempts[i]]_vars

C30_Witness ==
    \E i \in Inv :
        /\ req[i] # NoRequest
        /\ req[i].surface = "http_rpc"
        /\ pc[i] = "done"
        /\ attempts[i] = 4
        /\ clientOut[i].state = "rejected"
        /\ result[i].kind = "http"
        /\ result[i].status = 429

====
